---- MODULE Spec2Model ----
(***************************************************************************)
(* The deck-state engine of the Collapse deck builder (DeckBuilder in      *)
(* collapse_web): selection counts, deck / hand / discard, the lock, the   *)
(* hand limit, saved decks and the play-selection overlay (activePlay).    *)
(* Every handler is a function from the previous builder state to the set  *)
(* of states its updater can return (more than one only where the code    *)
(* calls Math.random), and an action applies one handler.                  *)
(***************************************************************************)
EXTENDS Integers, Sequences, FiniteSets, TLC

VARIABLES builderState, activePlay, lastBuild

vars == <<builderState, activePlay, lastBuild>>

----------------------------------------------------------------------------
(* Bounds of the model.                                                    *)

\* most cards the selection counts may name, and most ids Deck, Hand and
\* Discard may hold together
MaxCards == 6
\* modifierCapacity is explored within 10 - CapSpan .. 10 + CapSpan
CapSpan == 1
\* the numbers typed into the hand-limit input are -1 and MaxHandInput
MaxHandInput == 2
\* most steps modifierCapacity is raised above its default
MaxRaise == 15

----------------------------------------------------------------------------
(* The card catalog (Handbook): two base cards, two modifiers, one null.   *)

BaseOrder == <<"b1", "b2">>
ModOrder == <<"m1", "m2">>
NullId == "null"

BaseIds == {BaseOrder[i] : i \in 1..Len(BaseOrder)}
ModIds == {ModOrder[i] : i \in 1..Len(ModOrder)}
AllIds == BaseIds \cup ModIds \cup {NullId}

\* card.cost ?? 0
Cost(id) == CASE id = "m1" -> 3 [] id = "m2" -> 10 [] OTHER -> 0

\* card.type of the catalog entry
CardType(id) == IF id \in BaseIds THEN "base" ELSE IF id \in ModIds THEN "modifier" ELSE "null"

----------------------------------------------------------------------------
(* Constants and small helpers of DeckBuilder.                             *)

BASE_TARGET == 26
MIN_NULLS == 5

NoPlay == [none |-> TRUE]

Max(a, b) == IF a >= b THEN a ELSE b

\* clamp(value, min) with no max given
clamp(value, min) == IF value < min THEN min ELSE value

RECURSIVE SumOver(_, _)
SumOver(f, S) == IF S = {} THEN 0 ELSE LET x == CHOOSE y \in S : TRUE IN f[x] + SumOver(f, S \ {x})

sumCounts(counts) == SumOver(counts, DOMAIN counts)

buildInitialCounts(cards) == [id \in cards |-> 0]

Repeat(id, n) == [i \in 1..n |-> id]

IdsOf(entries) == [i \in 1..Len(entries) |-> entries[i].id]

RemoveAt(seq, i) == SubSeq(seq, 1, i - 1) \o SubSeq(seq, i + 1, Len(seq))

Last(seq) == seq[Len(seq)]
Front(seq) == SubSeq(seq, 1, Len(seq) - 1)

Reverse(seq) == [i \in 1..Len(seq) |-> seq[Len(seq) + 1 - i]]

\* the multiset of a sequence of ids, as a count per catalog id
CountOf(seq, id) == Cardinality({i \in 1..Len(seq) : seq[i] = id})
BagOf(seq) == [id \in AllIds |-> CountOf(seq, id)]
BagSum(a, b) == [id \in AllIds |-> a[id] + b[id]]
EmptyBag == [id \in AllIds |-> 0]

defaultState == [
    baseCounts |-> buildInitialCounts(BaseIds),
    modCounts |-> buildInitialCounts(ModIds),
    nullCount |-> MIN_NULLS,
    modifierCapacity |-> 10,
    deck |-> <<>>,
    hand |-> <<>>,
    discard |-> <<>>,
    isLocked |-> FALSE,
    deckName |-> "",
    savedDecks |-> <<>>,
    handLimit |-> 5 ]

\* parsed.field ?? fallback
OrElse(parsed, field, fallback) == IF field \in DOMAIN parsed THEN parsed[field] ELSE fallback

\* { ...buildInitialCounts(cards), ...counts }
Spread(cards, counts) ==
    [id \in cards \cup DOMAIN counts |-> IF id \in DOMAIN counts THEN counts[id] ELSE 0]

NoRaw == [none |-> TRUE]

\* loadState on the snapshot parsed from localStorage (NoRaw: nothing stored)
loadState(parsed) ==
    IF parsed = NoRaw THEN defaultState
    ELSE [
        baseCounts |-> Spread(BaseIds, OrElse(parsed, "baseCounts", <<>>)),
        modCounts |-> Spread(ModIds, OrElse(parsed, "modCounts", <<>>)),
        nullCount |-> Max(OrElse(parsed, "nullCount", MIN_NULLS), MIN_NULLS),
        modifierCapacity |-> OrElse(parsed, "modifierCapacity", 10),
        deck |-> OrElse(parsed, "deck", <<>>),
        hand |-> OrElse(parsed, "hand", <<>>),
        discard |-> OrElse(parsed, "discard", <<>>),
        isLocked |-> OrElse(parsed, "isLocked", FALSE),
        deckName |-> OrElse(parsed, "deckName", ""),
        handLimit |-> OrElse(parsed, "handLimit", 5),
        savedDecks |-> OrElse(parsed, "savedDecks", <<>>) ]

----------------------------------------------------------------------------
(* utils/modCapacity and utils/playFlow.                                   *)

\* getModCapacityUsed(modCards, modCounts): sum of count x cost
getModCapacityUsed(modCounts) ==
    SumOver([id \in DOMAIN modCounts |-> modCounts[id] * Cost(id)], DOMAIN modCounts)

\* canAddModCardFrom(modCards, state, cardId): one more copy still fits
canAddModCardFrom(state, cardId) ==
    getModCapacityUsed(state.modCounts) + Cost(cardId) <= state.modifierCapacity

\* summed cost of the modifiers queued on a play
AttachedCost(mods) == SumOver([i \in 1..Len(mods) |-> Cost(mods[i])], 1..Len(mods))

startPlaySelection(prev, cardId) ==
    IF prev # NoPlay THEN prev ELSE [baseId |-> cardId, mods |-> <<>>]

toggleAttach(prev, cardId, handCounts, capacity) ==
    IF prev = NoPlay THEN prev
    ELSE IF handCounts[cardId] <= 0 THEN prev
    ELSE IF \E i \in 1..Len(prev.mods) : prev.mods[i] = cardId
         THEN [prev EXCEPT !.mods = SelectSeq(@, LAMBDA m : m # cardId)]
    ELSE IF AttachedCost(prev.mods) + Cost(cardId) > capacity THEN prev
    ELSE [prev EXCEPT !.mods = Append(@, cardId)]

finalizeSelection(active) == active

cancelSelection(active) == NoPlay

----------------------------------------------------------------------------
(* Deck assembly and validation.                                           *)

baseTotal(state) == sumCounts(state.baseCounts)
modCapacityUsed(state) == getModCapacityUsed(state.modCounts)

\* a base check that accepts a short deck
baseValid_atMost(state) == baseTotal(state) <= BASE_TARGET

baseValid(state) == baseTotal(state) = BASE_TARGET
nullValid(state) == state.nullCount >= MIN_NULLS
modValid(state) == modCapacityUsed(state) <= state.modifierCapacity
deckIsValid(state) == baseValid(state) /\ nullValid(state) /\ modValid(state)

canAddModCardSnapshot(state, cardId) == canAddModCardFrom(state, cardId)

\* the keys of a counts object in Object.entries order: the catalog's ids
\* first (buildInitialCounts), then the ids only storage had
RECURSIVE SeqOfSet(_)
SeqOfSet(S) ==
    IF S = {} THEN <<>>
    ELSE LET x == CHOOSE y \in S : TRUE IN <<x>> \o SeqOfSet(S \ {x})

KeyOrder(counts, order) ==
    order \o SeqOfSet(DOMAIN counts \ {order[i] : i \in 1..Len(order)})

RECURSIVE ExpandCounts(_, _, _)
ExpandCounts(counts, order, i) ==
    IF i > Len(order) THEN <<>>
    ELSE (IF order[i] \in DOMAIN counts THEN Repeat(order[i], counts[order[i]]) ELSE <<>>)
         \o ExpandCounts(counts, order, i + 1)

\* base ids, then modifier ids, then the null id, each repeated per its count
buildDeckArray(state) ==
    ExpandCounts(state.baseCounts, KeyOrder(state.baseCounts, BaseOrder), 1)
    \o ExpandCounts(state.modCounts, KeyOrder(state.modCounts, ModOrder), 1)
    \o (IF state.nullCount > 0 THEN Repeat(NullId, state.nullCount) ELSE <<>>)

\* a swap that forgets the temporary: arr[j] is written from the new arr[i]
Swap_overwrite(arr, i, j) == [arr EXCEPT ![i] = arr[j]]

\* arr with the elements at i and j exchanged
Swap(arr, i, j) == [arr EXCEPT ![i] = arr[j], ![j] = arr[i]]

\* Fisher-Yates from index i down: every choice of j in 1..i at every i
RECURSIVE FisherYates(_, _)
FisherYates(arrs, i) ==
    IF i <= 1 THEN arrs
    ELSE FisherYates({Swap(a, i, j) : a \in arrs, j \in 1..i}, i - 1)

\* every order Math.random can give the array
shuffleInPlace(arr) == FisherYates({arr}, Len(arr))

----------------------------------------------------------------------------
(* The deck / hand / discard engine: each handler's updater, prev -> the   *)
(* set of states it can return.                                            *)

\* an entry that enters the Hand as played
Unspent_played(id) == [id |-> id, state |-> "played"]

Unspent(id) == [id |-> id, state |-> "unspent"]

\* a Build that also empties the Hand
generateDeck_clearHand(prev, shuffle) ==
    LET newDeck == buildDeckArray(prev)
    IN {[prev EXCEPT !.deck = d, !.hand = <<>>] :
          d \in (IF shuffle THEN shuffleInPlace(newDeck) ELSE {newDeck})}

generateDeck(prev, shuffle) ==
    LET newDeck == buildDeckArray(prev)
    IN {[prev EXCEPT !.deck = d] : d \in (IF shuffle THEN shuffleInPlace(newDeck) ELSE {newDeck})}

shuffleDeck(prev) == {[prev EXCEPT !.deck = d] : d \in shuffleInPlace(prev.deck)}

\* deck.pop(): the tail is the top of the deck
\* a pop that reads the top and leaves it on the deck
popCard_peek(deck) == [card |-> Last(deck), rest |-> deck]

\* a shift: the card at index 0
popCard_shift(deck) == [card |-> Head(deck), rest |-> Tail(deck)]

popCard(deck) == [card |-> Last(deck), rest |-> Front(deck)]

\* a refill that pushes the shuffled ids twice
refillDeck_twice(deck, discard) ==
    IF Len(deck) = 0 THEN {deck \o ids \o ids : ids \in shuffleInPlace(IdsOf(discard))} ELSE {deck}

\* the decks a draw pops from: the deck itself, or the reshuffled discard ids
\* pushed onto the empty deck
refillDeck(deck, discard) ==
    IF Len(deck) = 0 THEN {deck \o ids : ids \in shuffleInPlace(IdsOf(discard))} ELSE {deck}

\* a draw that recycles the discard pile under a Deck that still has cards
draw_recycling(prev) ==
    IF ~prev.isLocked THEN {prev}
    ELSE IF Len(prev.hand) >= prev.handLimit THEN {prev}
    ELSE IF Len(prev.deck) = 0 /\ Len(prev.discard) = 0 THEN {prev}
    ELSE {[prev EXCEPT !.deck = popCard(d).rest,
                       !.hand = Append(@, Unspent(popCard(d).card)),
                       !.discard = <<>>]
          : d \in {ids \o prev.deck : ids \in shuffleInPlace(IdsOf(prev.discard))}}

\* a draw that checks the hand limit one card late
draw_late(prev) ==
    IF ~prev.isLocked THEN {prev}
    ELSE IF Len(prev.hand) > prev.handLimit THEN {prev}
    ELSE IF Len(prev.deck) = 0 /\ Len(prev.discard) = 0 THEN {prev}
    ELSE {[prev EXCEPT !.deck = popCard(d).rest,
                       !.hand = Append(@, Unspent(popCard(d).card)),
                       !.discard = IF Len(prev.deck) = 0 THEN <<>> ELSE @]
          : d \in refillDeck(prev.deck, prev.discard)}

\* a draw that does not look at the lock
draw_unlocked(prev) ==
    IF Len(prev.hand) >= prev.handLimit THEN {prev}
    ELSE IF Len(prev.deck) = 0 /\ Len(prev.discard) = 0 THEN {prev}
    ELSE {[prev EXCEPT !.deck = popCard(d).rest,
                       !.hand = Append(@, Unspent(popCard(d).card)),
                       !.discard = IF Len(prev.deck) = 0 THEN <<>> ELSE @]
          : d \in refillDeck(prev.deck, prev.discard)}

draw(prev) ==
    IF ~prev.isLocked THEN {prev}
    ELSE IF Len(prev.hand) >= prev.handLimit THEN {prev}
    ELSE IF Len(prev.deck) = 0 /\ Len(prev.discard) = 0 THEN {prev}
    ELSE {[prev EXCEPT !.deck = popCard(d).rest,
                       !.hand = Append(@, Unspent(popCard(d).card)),
                       !.discard = IF Len(prev.deck) = 0 THEN <<>> ELSE @]
          : d \in refillDeck(prev.deck, prev.discard)}

RECURSIVE discardFromDeck(_, _)
discardFromDeck(prev, count) ==
    IF count = 0 \/ Len(prev.deck) = 0 THEN prev
    ELSE discardFromDeck(
            [prev EXCEPT !.deck = popCard(@).rest,
                         !.discard = Append(@, [id |-> popCard(prev.deck).card, origin |-> "discarded"])],
            count - 1)

returnDiscardToDeck(prev, shuffle, toTop) ==
    LET idss == IF shuffle THEN shuffleInPlace(IdsOf(prev.discard)) ELSE {IdsOf(prev.discard)}
        joined == {IF toTop THEN prev.deck \o ids ELSE ids \o prev.deck : ids \in idss}
        decks == IF shuffle THEN UNION {shuffleInPlace(d) : d \in joined} ELSE joined
    IN {[prev EXCEPT !.deck = d, !.discard = <<>>] : d \in decks}

\* a Reset that leaves the Discard
resetDeck_keepDiscard(prev) ==
    {[prev EXCEPT !.deck = d, !.hand = <<>>] : d \in shuffleInPlace(buildDeckArray(prev))}

resetDeck(prev) ==
    {[prev EXCEPT !.deck = d, !.hand = <<>>, !.discard = <<>>] : d \in shuffleInPlace(buildDeckArray(prev))}

toggleLockDeck(prev) == [prev EXCEPT !.isLocked = ~@]

\* a load that keeps the cards on the table
loadSavedDeck_keepTable(prev, name) ==
    IF name \notin DOMAIN prev.savedDecks THEN prev
    ELSE LET sd == prev.savedDecks[name]
         IN [prev EXCEPT !.deck = sd.deck,
                         !.baseCounts = sd.baseCounts,
                         !.modCounts = sd.modCounts,
                         !.nullCount = sd.nullCount,
                         !.modifierCapacity = sd.modifierCapacity,
                         !.deckName = sd.name,
                         !.isLocked = FALSE]

loadSavedDeck(prev, name) ==
    IF name \notin DOMAIN prev.savedDecks THEN prev
    ELSE LET sd == prev.savedDecks[name]
         IN [prev EXCEPT !.deck = sd.deck,
                         !.baseCounts = sd.baseCounts,
                         !.modCounts = sd.modCounts,
                         !.nullCount = sd.nullCount,
                         !.modifierCapacity = sd.modifierCapacity,
                         !.deckName = sd.name,
                         !.isLocked = FALSE,
                         !.hand = <<>>,
                         !.discard = <<>>]

deleteSavedDeck(prev, name) ==
    [prev EXCEPT !.savedDecks = [n \in (DOMAIN prev.savedDecks) \ {name} |-> prev.savedDecks[n]]]

\* counts[cardId] ?? 0
CountAt(counts, cardId) == IF cardId \in DOMAIN counts THEN counts[cardId] ELSE 0

\* { ...counts, [cardId]: value }
SetCount(counts, cardId, value) ==
    [id \in (DOMAIN counts) \cup {cardId} |-> IF id = cardId THEN value ELSE counts[id]]

\* an adjustBaseCount that is turned down while locked
adjustBaseCount_locked(prev, cardId, delta) ==
    LET current == CountAt(prev.baseCounts, cardId)
        next == clamp(current + delta, 0)
        prevTotal == sumCounts(prev.baseCounts)
        newTotal == prevTotal - current + next
    IN IF prev.isLocked \/ newTotal > BASE_TARGET THEN prev
       ELSE [prev EXCEPT !.baseCounts = SetCount(@, cardId, next)]

adjustBaseCount(prev, cardId, delta) ==
    LET current == CountAt(prev.baseCounts, cardId)
        next == clamp(current + delta, 0)
        prevTotal == sumCounts(prev.baseCounts)
        newTotal == prevTotal - current + next
    IN IF newTotal > BASE_TARGET THEN prev
       ELSE [prev EXCEPT !.baseCounts = SetCount(@, cardId, next)]

\* an adjustModCount that does not look at the lock
adjustModCount_unlocked(prev, cardId, delta) ==
    IF delta > 0 /\ ~canAddModCardSnapshot(prev, cardId) THEN prev
    ELSE [prev EXCEPT !.modCounts = SetCount(@, cardId, clamp(CountAt(prev.modCounts, cardId) + delta, 0))]

\* an adjustModCount that admits while the capacity is not yet passed
adjustModCount_atCapacity(prev, cardId, delta) ==
    IF prev.isLocked THEN prev
    ELSE IF delta > 0 /\ ~(modCapacityUsed(prev) <= prev.modifierCapacity) THEN prev
    ELSE [prev EXCEPT !.modCounts = SetCount(@, cardId, clamp(CountAt(prev.modCounts, cardId) + delta, 0))]

\* an adjustModCount without the capacity check
adjustModCount_unchecked(prev, cardId, delta) ==
    IF prev.isLocked THEN prev
    ELSE [prev EXCEPT !.modCounts = SetCount(@, cardId, clamp(CountAt(prev.modCounts, cardId) + delta, 0))]

adjustModCount(prev, cardId, delta) ==
    IF prev.isLocked THEN prev
    ELSE IF delta > 0 /\ ~canAddModCardSnapshot(prev, cardId) THEN prev
    ELSE [prev EXCEPT !.modCounts = SetCount(@, cardId, clamp(CountAt(prev.modCounts, cardId) + delta, 0))]

adjustNullCount(prev, delta) == [prev EXCEPT !.nullCount = clamp(@ + delta, MIN_NULLS)]

adjustModifierCapacity(prev, delta) == [prev EXCEPT !.modifierCapacity = Max(@ + delta, 0)]

\* a reset that keeps the lock
resetBuilder_keepLock(prev) == [defaultState EXCEPT !.isLocked = prev.isLocked]

resetBuilder(prev) == defaultState

\* a limit that is applied to the Hand at once: the entries past it go to Discard
setHandLimit_trim(prev, isNaN, next) ==
    LET limit == IF isNaN THEN prev.handLimit ELSE clamp(next, 0)
        kept == IF Len(prev.hand) > limit THEN limit ELSE Len(prev.hand)
    IN [prev EXCEPT !.handLimit = limit,
                    !.hand = SubSeq(@, 1, kept),
                    !.discard = @ \o [i \in 1..(Len(prev.hand) - kept) |->
                                         [id |-> prev.hand[kept + i].id, origin |-> "discarded"]]]

\* the hand-limit input's onChange; isNaN when the text typed is no number
setHandLimit(prev, isNaN, next) ==
    [prev EXCEPT !.handLimit = IF isNaN THEN @ ELSE clamp(next, 0)]

\* what an updater that throws leaves instead of a state
TypeError == [raised |-> "TypeError"]

\* the position d.splice(idx, 1) removes, idx counted from 1 here: an index
\* before the first counts back from the end, one past the last removes
\* nothing (0)
SpliceAt(len, idx) ==
    IF idx > len THEN 0
    ELSE IF idx >= 1 THEN idx
    ELSE IF len = 0 THEN 0
    ELSE Max(len + idx, 1)

\* it = d.splice(idx, 1)[0]; it.id throws when nothing was removed
returnDiscardItemToDeck(prev, idx) ==
    LET at == SpliceAt(Len(prev.discard), idx)
    IN IF at = 0 THEN TypeError
       ELSE [prev EXCEPT !.discard = RemoveAt(@, at), !.deck = Append(@, prev.discard[at].id)]

\* a return that puts the ids under the Deck
returnDiscardGroupToDeck_bottom(prev, cardId, all) ==
    LET found == {i \in 1..Len(prev.discard) : prev.discard[i].id = cardId}
    IN IF found = {} THEN prev
       ELSE IF all
            THEN [prev EXCEPT !.discard = SelectSeq(@, LAMBDA d : d.id # cardId),
                              !.deck = IdsOf(SelectSeq(prev.discard, LAMBDA d : d.id = cardId)) \o @]
            ELSE [prev EXCEPT !.discard = RemoveAt(@, CHOOSE i \in found : \A k \in found : i <= k),
                              !.deck = <<cardId>> \o @]

returnDiscardGroupToDeck(prev, cardId, all) ==
    IF all
    THEN LET idsToMove == IdsOf(SelectSeq(prev.discard, LAMBDA d : d.id = cardId))
             remaining == SelectSeq(prev.discard, LAMBDA d : d.id # cardId)
         IN [prev EXCEPT !.discard = remaining, !.deck = @ \o idsToMove]
    ELSE LET found == {i \in 1..Len(prev.discard) : prev.discard[i].id = cardId}
         IN IF found = {} THEN prev
            ELSE LET idx == CHOOSE i \in found : \A k \in found : i <= k
                 IN [prev EXCEPT !.discard = RemoveAt(@, idx), !.deck = Append(@, prev.discard[idx].id)]

returnDiscardItemToHand(prev, idx) ==
    LET at == SpliceAt(Len(prev.discard), idx)
    IN IF Len(prev.hand) >= prev.handLimit THEN prev
       ELSE IF at = 0 THEN TypeError
       ELSE [prev EXCEPT !.discard = RemoveAt(@, at), !.hand = Append(@, Unspent(prev.discard[at].id))]

\* a loop that runs from the oldest entry up
RECURSIVE TakeOldest(_, _, _, _, _, _)
TakeOldest(discard, moved, i, space, cardId, all) ==
    IF i > Len(discard) \/ Len(moved) >= space THEN [discard |-> discard, moved |-> moved]
    ELSE IF discard[i].id = cardId
         THEN IF all
              THEN TakeOldest(RemoveAt(discard, i), Append(moved, discard[i]), i, space, cardId, all)
              ELSE [discard |-> RemoveAt(discard, i), moved |-> Append(moved, discard[i])]
         ELSE TakeOldest(discard, moved, i + 1, space, cardId, all)

TakeFromDiscard_oldest(discard, moved, i, space, cardId, all) ==
    TakeOldest(discard, moved, 1, space, cardId, all)

\* the loop of returnDiscardGroupToHand from index i down: what is left of
\* discard, and the entries moved so far (most recent first)
RECURSIVE TakeFromDiscard(_, _, _, _, _, _)
TakeFromDiscard(discard, moved, i, space, cardId, all) ==
    IF i < 1 \/ Len(moved) >= space THEN [discard |-> discard, moved |-> moved]
    ELSE IF discard[i].id = cardId
         THEN IF all
              THEN TakeFromDiscard(RemoveAt(discard, i), Append(moved, discard[i]), i - 1, space, cardId, all)
              ELSE [discard |-> RemoveAt(discard, i), moved |-> Append(moved, discard[i])]
         ELSE TakeFromDiscard(discard, moved, i - 1, space, cardId, all)

returnDiscardGroupToHand(prev, cardId, all) ==
    LET space == Max(0, prev.handLimit - Len(prev.hand))
    IN IF space <= 0 THEN prev
       ELSE LET r == TakeFromDiscard(prev.discard, <<>>, Len(prev.discard), space, cardId, all)
            IN IF Len(r.moved) = 0 THEN prev
               ELSE [prev EXCEPT !.discard = r.discard,
                                 !.hand = @ \o [i \in 1..Len(r.moved) |-> Unspent(r.moved[i].id)]]

\* the whole-group loop of discardGroupFromHand from index i down
RECURSIVE TakeFromHand(_, _, _, _)
TakeFromHand(hand, removed, i, cardId) ==
    IF i < 1 THEN [hand |-> hand, removed |-> removed]
    ELSE IF hand[i].id = cardId
         THEN TakeFromHand(RemoveAt(hand, i), Append(removed, hand[i]), i - 1, cardId)
         ELSE TakeFromHand(hand, removed, i - 1, cardId)

\* a single move that takes the last matching entry of Hand
discardGroupFromHand_last(prev, cardId, all, origin) ==
    LET found == {i \in 1..Len(prev.hand) : prev.hand[i].id = cardId}
        r == IF all THEN TakeFromHand(prev.hand, <<>>, Len(prev.hand), cardId)
             ELSE IF found = {} THEN [hand |-> prev.hand, removed |-> <<>>]
             ELSE LET idx == CHOOSE i \in found : \A k \in found : i >= k
                  IN [hand |-> RemoveAt(prev.hand, idx), removed |-> <<prev.hand[idx]>>]
    IN IF Len(r.removed) = 0 THEN prev
       ELSE [prev EXCEPT !.hand = r.hand,
                         !.discard = @ \o [i \in 1..Len(r.removed) |-> [id |-> r.removed[i].id, origin |-> origin]]]

\* a move that adds the id to Discard without finding it in Hand
discardGroupFromHand_blind(prev, cardId, all, origin) ==
    LET found == {i \in 1..Len(prev.hand) : prev.hand[i].id = cardId}
    IN [prev EXCEPT !.hand = IF found = {} THEN @
                              ELSE RemoveAt(@, CHOOSE i \in found : \A k \in found : i <= k),
                    !.discard = Append(@, [id |-> cardId, origin |-> origin])]

discardGroupFromHand(prev, cardId, all, origin) ==
    LET found == {i \in 1..Len(prev.hand) : prev.hand[i].id = cardId}
        r == IF all THEN TakeFromHand(prev.hand, <<>>, Len(prev.hand), cardId)
             ELSE IF found = {} THEN [hand |-> prev.hand, removed |-> <<>>]
             ELSE LET idx == CHOOSE i \in found : \A k \in found : i <= k
                  IN [hand |-> RemoveAt(prev.hand, idx), removed |-> <<prev.hand[idx]>>]
    IN IF Len(r.removed) = 0 THEN prev
       ELSE [prev EXCEPT !.hand = r.hand,
                         !.discard = @ \o [i \in 1..Len(r.removed) |-> [id |-> r.removed[i].id, origin |-> origin]]]

----------------------------------------------------------------------------
(* The play flow handlers.                                                 *)

\* handCounts of attachModifier: entries of Hand per id
handCounts(state) == [id \in AllIds |-> CountOf(IdsOf(state.hand), id)]

startPlayBase(active, cardId) == startPlaySelection(active, cardId)

attachModifier(state, active, cardId) ==
    toggleAttach(active, cardId, handCounts(state), state.modifierCapacity)

\* the updaters finalizePlay queues, one per attached modifier, applied in order
RECURSIVE DiscardEach(_, _, _)
DiscardEach(prev, mods, i) ==
    IF i > Len(mods) THEN prev
    ELSE DiscardEach(discardGroupFromHand(prev, mods[i], FALSE, "played"), mods, i + 1)

\* finalizePlay: the builder state and the active play it leaves
finalizePlay(state, active) ==
    LET sel == finalizeSelection(active)
    IN IF sel = NoPlay THEN [state |-> state, active |-> active]
       ELSE [state |-> DiscardEach(discardGroupFromHand(state, sel.baseId, FALSE, "played"), sel.mods, 1),
             active |-> NoPlay]

cancelPlay(active) == cancelSelection(active)

----------------------------------------------------------------------------
(* The state machine.                                                      *)

NoBuild == [none |-> TRUE]

\* the multiset the selection counts of a state expand to
SelectionBag(state) ==
    [id \in AllIds |->
        CountAt(state.baseCounts, id) + CountAt(state.modCounts, id)
        + (IF id = NullId THEN state.nullCount ELSE 0)]

\* the ids of Deck, Hand and Discard together
CardsOf(state) ==
    BagSum(BagOf(state.deck), BagSum(BagOf(IdsOf(state.hand)), BagOf(IdsOf(state.discard))))

IdsIn(entries) == {entries[i].id : i \in 1..Len(entries)}

\* the tables the model explores
FewCards(state) == Len(state.deck) + Len(state.hand) + Len(state.discard) <= MaxCards

Deltas == {-1, 1}
HandInputs == {-1, MaxHandInput}

\* selections a session can have stored: no card twice, within the capacity
Selections ==
    {[defaultState EXCEPT !.baseCounts = b, !.modCounts = m] :
        b \in [BaseIds -> 0..1],
        m \in {x \in [ModIds -> 0..1] :
                  getModCapacityUsed(x) <= defaultState.modifierCapacity}}

\* what the engine starts from: nothing stored, or a selection of one card
\* and the nulls stored before anything was built
Persisted ==
    {NoRaw} \cup {state \in Selections :
                     /\ baseTotal(state) + sumCounts(state.modCounts) <= 1
                     /\ SumOver(SelectionBag(state), AllIds) <= MaxCards}

\* the component mounts on what loadState restores
Init ==
    /\ builderState \in {loadState(parsed) : parsed \in Persisted}
    /\ activePlay = NoPlay
    /\ lastBuild = NoBuild

\* a handler that touches the builder state alone and rebuilds nothing
Apply(results) ==
    /\ builderState' \in results
    /\ UNCHANGED <<activePlay, lastBuild>>

GenerateDeck ==
    /\ \E shuffle \in BOOLEAN : \E t \in generateDeck(builderState, shuffle) :
          FewCards(t) /\ builderState' = t
    /\ lastBuild' = [expansion |-> SelectionBag(builderState),
                     carried |-> BagSum(BagOf(IdsOf(builderState.hand)),
                                        BagOf(IdsOf(builderState.discard)))]
    /\ UNCHANGED activePlay

ResetDeck ==
    /\ \E t \in resetDeck(builderState) : FewCards(t) /\ builderState' = t
    /\ lastBuild' = [expansion |-> SelectionBag(builderState), carried |-> EmptyBag]
    /\ UNCHANGED activePlay

ResetBuilder ==
    /\ builderState' = resetBuilder(builderState)
    /\ lastBuild' = NoBuild
    /\ UNCHANGED activePlay

ShuffleDeck == Apply(shuffleDeck(builderState))

Draw == Apply(draw(builderState))

ToggleLockDeck == Apply({toggleLockDeck(builderState)})

AdjustBaseCount ==
    \E cardId \in BaseIds, delta \in Deltas : Apply({adjustBaseCount(builderState, cardId, delta)})

AdjustModCount ==
    \E cardId \in ModIds, delta \in Deltas : Apply({adjustModCount(builderState, cardId, delta)})

AdjustNullCount ==
    \E delta \in Deltas :
        /\ adjustNullCount(builderState, delta).nullCount <= MaxCards
        /\ Apply({adjustNullCount(builderState, delta)})

AdjustModifierCapacity ==
    \E delta \in Deltas :
        /\ adjustModifierCapacity(builderState, delta).modifierCapacity
              \in (defaultState.modifierCapacity - CapSpan)..(defaultState.modifierCapacity + CapSpan)
        /\ Apply({adjustModifierCapacity(builderState, delta)})

SetHandLimit ==
    \/ Apply({setHandLimit(builderState, TRUE, 0)})
    \/ \E next \in HandInputs : Apply({setHandLimit(builderState, FALSE, next)})

\* the discard pile offers its buttons per entry and per stack of one id
ReturnDiscardItemToDeck ==
    \E idx \in 1..Len(builderState.discard) : Apply({returnDiscardItemToDeck(builderState, idx)})

ReturnDiscardGroupToDeck ==
    \E cardId \in IdsIn(builderState.discard), all \in BOOLEAN :
        Apply({returnDiscardGroupToDeck(builderState, cardId, all)})

ReturnDiscardItemToHand ==
    \E idx \in 1..Len(builderState.discard) : Apply({returnDiscardItemToHand(builderState, idx)})

ReturnDiscardGroupToHand ==
    \E cardId \in IdsIn(builderState.discard), all \in BOOLEAN :
        Apply({returnDiscardGroupToHand(builderState, cardId, all)})

\* the hand offers "Discard One" and "Discard Stack" per stack of one id
DiscardGroupFromHand ==
    \E cardId \in IdsIn(builderState.hand), all \in BOOLEAN :
        Apply({discardGroupFromHand(builderState, cardId, all, "discarded")})

\* "Play Base" is offered on the base cards of the hand
StartPlayBase ==
    /\ \E cardId \in IdsIn(builderState.hand) \cap BaseIds :
          activePlay' = startPlayBase(activePlay, cardId)
    /\ UNCHANGED <<builderState, lastBuild>>

\* "Attach" is offered on the other cards of the hand
AttachModifier ==
    /\ \E cardId \in IdsIn(builderState.hand) \ BaseIds :
          activePlay' = attachModifier(builderState, activePlay, cardId)
    /\ UNCHANGED <<builderState, lastBuild>>

FinalizePlay ==
    /\ builderState' = finalizePlay(builderState, activePlay).state
    /\ activePlay' = finalizePlay(builderState, activePlay).active
    /\ UNCHANGED lastBuild

CancelPlay ==
    /\ activePlay' = cancelPlay(activePlay)
    /\ UNCHANGED <<builderState, lastBuild>>

\* Spec: the deck, hand and discard engine over a stored selection
Next ==
    \/ GenerateDeck
    \/ ResetDeck
    \/ ResetBuilder
    \/ ShuffleDeck
    \/ Draw
    \/ ToggleLockDeck
    \/ AdjustNullCount
    \/ SetHandLimit
    \/ ReturnDiscardItemToDeck
    \/ ReturnDiscardGroupToDeck
    \/ ReturnDiscardItemToHand
    \/ ReturnDiscardGroupToHand
    \/ DiscardGroupFromHand

Spec == Init /\ [][Next]_vars

\* SpecBuilder: editing the selection, from the defaults
InitBuilder ==
    /\ builderState = loadState(NoRaw)
    /\ activePlay = NoPlay
    /\ lastBuild = NoBuild

NextBuilder ==
    \/ AdjustBaseCount
    \/ AdjustModCount
    \/ AdjustNullCount
    \/ AdjustModifierCapacity
    \/ ToggleLockDeck

SpecBuilder == InitBuilder /\ [][NextBuilder]_vars

\* SpecPlay: playing from a stored table that was built and shuffled, locked
\* or not. The deck is one order the shuffle can give: the nulls at the bottom.
Tables ==
    {[sel EXCEPT !.deck = Reverse(buildDeckArray(sel)), !.isLocked = locked] :
        sel \in {x \in Selections : x.baseCounts["b1"] = 1 /\ baseTotal(x) = 1
                                      /\ sumCounts(x.modCounts) = 1},
        locked \in BOOLEAN}

InitPlay ==
    /\ builderState \in {loadState(parsed) : parsed \in Tables}
    /\ activePlay = NoPlay
    /\ lastBuild = NoBuild

NextPlay ==
    \/ Draw
    \/ AdjustModifierCapacity
    \/ DiscardGroupFromHand
    \/ StartPlayBase
    \/ AttachModifier
    \/ FinalizePlay
    \/ CancelPlay

SpecPlay == InitPlay /\ [][NextPlay]_vars

----------------------------------------------------------------------------
(* The engine properties, checked under Spec.                              *)

\* what the return-to-hand buttons of the discard pile can give
ReturnsToHand(state) ==
    {returnDiscardItemToHand(state, idx) : idx \in 1..Len(state.discard)}
    \cup {returnDiscardGroupToHand(state, cardId, all) :
            cardId \in IdsIn(state.discard), all \in BOOLEAN}

\* what every other handler can give (the two the component no longer calls,
\* discardFromDeck and returnDiscardToDeck, without their shuffle)
OtherHandlers(state, active) ==
    UNION {generateDeck(state, shuffle) : shuffle \in BOOLEAN}
    \cup shuffleDeck(state)
    \cup resetDeck(state)
    \cup UNION {returnDiscardToDeck(state, FALSE, toTop) : toTop \in BOOLEAN}
    \cup {discardFromDeck(state, count) : count \in 1..2}
    \cup {toggleLockDeck(state), resetBuilder(state), finalizePlay(state, active).state}
    \cup {adjustBaseCount(state, cardId, delta) : cardId \in BaseIds, delta \in Deltas}
    \cup {adjustModCount(state, cardId, delta) : cardId \in ModIds, delta \in Deltas}
    \cup {adjustNullCount(state, delta) : delta \in Deltas}
    \cup {adjustModifierCapacity(state, delta) : delta \in Deltas}
    \cup {setHandLimit(state, isNaN, next) : isNaN \in BOOLEAN, next \in HandInputs}
    \cup {returnDiscardItemToDeck(state, idx) : idx \in 1..Len(state.discard)}
    \cup {returnDiscardGroupToDeck(state, cardId, all) : cardId \in AllIds, all \in BOOLEAN}
    \cup {discardGroupFromHand(state, cardId, all, "discarded") : cardId \in AllIds, all \in BOOLEAN}

\* C1 (as stated): after a Build or Reset, the ids of Deck, Hand and Discard
\* together are the expansion of the selection counts taken at that Build or
\* Reset, whatever was shuffled, drawn, discarded or returned since.
C1_UnionIsExpansion ==
    lastBuild # NoBuild => CardsOf(builderState) = lastBuild.expansion

\* C1 (amended): the ids of Deck, Hand and Discard together are the expansion
\* of the selection counts taken at the last Build or Reset plus the ids that
\* were in Hand and Discard when that Build ran; a Reset carries none over.
C1_UnionIsExpansionAndCarried ==
    lastBuild # NoBuild =>
        CardsOf(builderState) = BagSum(lastBuild.expansion, lastBuild.carried)

\* a Build ran over cards in Hand and Discard, the selection changed since,
\* and cards are in Hand and Discard again
C1_Witness ==
    /\ lastBuild # NoBuild
    /\ lastBuild.carried # EmptyBag
    /\ lastBuild.expansion # SelectionBag(builderState)
    /\ Len(builderState.hand) > 0
    /\ Len(builderState.discard) > 0
    /\ Len(builderState.deck) > 0

\* C2 (as stated): after every Draw and every return-to-hand the Hand holds
\* at most handLimit entries, also after handLimit was changed.
C2_HandWithinLimit ==
    \A t \in draw(builderState) \cup ReturnsToHand(builderState) :
        Len(t.hand) <= t.handLimit

\* C2 (amended): every Draw and every return-to-hand that adds to the Hand
\* leaves at most handLimit entries in it, and one that adds nothing leaves
\* the Hand as it was, over the limit if the limit was lowered under it.
C2_HandWithinLimitWhenAdded ==
    \A t \in draw(builderState) \cup ReturnsToHand(builderState) :
        \/ t.hand = builderState.hand
        \/ Len(t.hand) > Len(builderState.hand) /\ Len(t.hand) <= t.handLimit

\* the limit was changed; a Draw fills the Hand up to it, and so does the
\* return of a stack that holds more entries than the Hand has room for
C2_Witness ==
    /\ builderState.handLimit = MaxHandInput
    /\ Len(builderState.hand) = builderState.handLimit - 1
    /\ \E t \in draw(builderState) : Len(t.hand) = t.handLimit
    /\ \E cardId \in IdsIn(builderState.discard) :
          /\ CountOf(IdsOf(builderState.discard), cardId) >= 2
          /\ Len(returnDiscardGroupToHand(builderState, cardId, TRUE).hand) = builderState.handLimit

\* C3 (as stated): a Draw with an empty Deck and a non-empty Discard yields
\* a Deck that is a permutation of the prior Discard ids and an empty Discard.
C3_DeckIsPriorDiscard ==
    (Len(builderState.deck) = 0 /\ Len(builderState.discard) > 0) =>
        \A t \in draw(builderState) :
            /\ BagOf(t.deck) = BagOf(IdsOf(builderState.discard))
            /\ t.discard = <<>>

\* C3 (amended): a Draw that is let through (locked, Hand under the limit)
\* with an empty Deck and a non-empty Discard leaves Discard empty, and the
\* Deck together with the one card it put in Hand is a permutation of the
\* prior Discard ids.
C3_DeckAndDrawnArePriorDiscard ==
    (/\ Len(builderState.deck) = 0 /\ Len(builderState.discard) > 0
     /\ builderState.isLocked /\ Len(builderState.hand) < builderState.handLimit) =>
        \A t \in draw(builderState) :
            /\ t.discard = <<>>
            /\ Len(t.hand) = Len(builderState.hand) + 1
            /\ SubSeq(t.hand, 1, Len(builderState.hand)) = builderState.hand
            /\ Last(t.hand).state = "unspent"
            /\ BagOf(Append(t.deck, Last(t.hand).id)) = BagOf(IdsOf(builderState.discard))

\* a Draw is let through on an empty Deck with two different ids in Discard
C3_Witness ==
    /\ Len(builderState.deck) = 0
    /\ Cardinality(IdsIn(builderState.discard)) >= 2
    /\ builderState.isLocked
    /\ Len(builderState.hand) < builderState.handLimit
    /\ Cardinality({t.deck : t \in draw(builderState)}) >= 2

\* C4: a Draw while unlocked, or with the Hand at or over handLimit, changes
\* nothing; a Draw that adds to the Hand was taken while locked, and no
\* handler but Draw and the returns to hand makes the Hand longer.
C4_DrawIsGated ==
    /\ (~builderState.isLocked \/ Len(builderState.hand) >= builderState.handLimit) =>
          draw(builderState) = {builderState}
    /\ \A t \in draw(builderState) :
          Len(t.hand) > Len(builderState.hand) => builderState.isLocked
    /\ \A t \in OtherHandlers(builderState, activePlay) :
          Len(t.hand) <= Len(builderState.hand)

\* an unlocked table whose Draw would otherwise reshuffle the Discard
C4_Witness ==
    /\ ~builderState.isLocked
    /\ Len(builderState.deck) = 0
    /\ Len(builderState.discard) > 0
    /\ Len(builderState.hand) < builderState.handLimit

\* the states k Draws lead to
RECURSIVE DrawTimes(_, _)
DrawTimes(states, k) ==
    IF k = 0 THEN states ELSE DrawTimes(UNION {draw(state) : state \in states}, k - 1)

\* a locked table with the Deck in a known order, an empty Hand and at least
\* handLimit cards: its handLimit Draws take the last handLimit ids, last
\* first, and the next Draw is turned down
LifoFrom(state) ==
    LET n == Len(state.deck)
        k == state.handLimit
    IN \A t \in DrawTimes({state}, k) :
          /\ IdsOf(t.hand) = Reverse(SubSeq(state.deck, n - k + 1, n))
          /\ t.deck = SubSeq(state.deck, 1, n - k)
          /\ t.discard = state.discard
          /\ draw(t) = {t}

\* Scenario A: 26 bases, 5 nulls, no modifiers, capacity 10
ScenarioA == [defaultState EXCEPT !.baseCounts = [id \in BaseIds |-> BASE_TARGET \div 2]]

\* Scenario C: Scenario A built unshuffled and locked, handLimit 5
ScenarioC == [ScenarioA EXCEPT !.deck = buildDeckArray(ScenarioA), !.isLocked = TRUE]

\* C5: with the Deck in a known order of n ids and handLimit k <= n, k Draws
\* from an empty Hand leave Hand = the last k ids in reverse and Deck = the
\* first n - k ids, and the next Draw is turned down.
C5_DrawsAreLifo ==
    /\ (/\ builderState.isLocked /\ builderState.hand = <<>>
        /\ builderState.handLimit <= Len(builderState.deck)) => LifoFrom(builderState)
    /\ LifoFrom(ScenarioC)
    /\ Len(ScenarioC.deck) = 31 /\ ScenarioC.handLimit = 5

\* a locked table, the Hand empty, handLimit changed, another id on top of
\* the Deck than under it
C5_Witness ==
    /\ builderState.isLocked
    /\ builderState.hand = <<>>
    /\ builderState.handLimit = MaxHandInput
    /\ Len(builderState.deck) > builderState.handLimit
    /\ Last(builderState.deck) # Last(Front(builderState.deck))

\* C6: Shuffle leaves the Deck with the same ids, each as often as before,
\* and changes nothing else.
C6_ShuffleIsPermutation ==
    \A t \in shuffleDeck(builderState) :
        /\ BagOf(t.deck) = BagOf(builderState.deck)
        /\ Len(t.deck) = Len(builderState.deck)
        /\ [t EXCEPT !.deck = builderState.deck] = builderState

\* a Deck of two different ids, that Shuffle can reorder, beside cards in
\* Hand and Discard
C6_Witness ==
    /\ Cardinality({builderState.deck[i] : i \in 1..Len(builderState.deck)}) >= 2
    /\ \E t \in shuffleDeck(builderState) : t.deck # builderState.deck
    /\ Len(builderState.hand) > 0
    /\ Len(builderState.discard) > 0

----------------------------------------------------------------------------
(* The selection properties, checked under SpecBuilder.                    *)

\* the three conditions, counted on the cards the selection expands to
ThreeConditions(state) ==
    /\ SumOver(SelectionBag(state), BaseIds) = 26
    /\ state.nullCount >= 5
    /\ SumOver([id \in ModIds |-> SelectionBag(state)[id] * Cost(id)], ModIds)
          <= state.modifierCapacity

\* the selection with one null fewer than the floor, and with one base more
Nearby(state) ==
    {[state EXCEPT !.nullCount = n, !.baseCounts = SetCount(@, "b1", CountAt(@, "b1") + extra)] :
        n \in {state.nullCount, MIN_NULLS - 1}, extra \in 0..1}

\* C8: isValid holds exactly when baseTotal = 26, nullCount >= 5 and
\* capacityUsed <= capacity; Scenario A is valid, and with nullCount 4 it is
\* not.
C8_ValidIffThreeConditions ==
    /\ \A state \in Nearby(builderState) : deckIsValid(state) <=> ThreeConditions(state)
    /\ deckIsValid(ScenarioA)
    /\ ~deckIsValid([ScenarioA EXCEPT !.nullCount = 4])

\* a full selection that uses the capacity up and is valid, while one base
\* more or one null fewer is not
C8_Witness ==
    /\ baseTotal(builderState) = BASE_TARGET
    /\ modCapacityUsed(builderState) = builderState.modifierCapacity
    /\ modCapacityUsed(builderState) > 0
    /\ deckIsValid(builderState)
    /\ \A state \in Nearby(builderState) \ {builderState} : ~deckIsValid(state)

----------------------------------------------------------------------------
(* The play properties, checked under SpecPlay.                            *)

InMods(active, cardId) == \E i \in 1..Len(active.mods) : active.mods[i] = cardId

PlayedOf(active) ==
    <<[id |-> active.baseId, origin |-> "played"]>>
    \o [i \in 1..Len(active.mods) |-> [id |-> active.mods[i], origin |-> "played"]]

\* C9: Finalize from Selecting takes one entry for baseId and one for each
\* id in mods out of Hand, appends exactly those to Discard with origin
\* Played, and clears Active Play.
C9_FinalizeMovesSelection ==
    activePlay # NoPlay =>
        LET after == finalizePlay(builderState, activePlay)
        IN /\ after.active = NoPlay
           /\ after.state.discard = builderState.discard \o PlayedOf(activePlay)
           /\ BagSum(BagOf(IdsOf(after.state.hand)), BagOf(IdsOf(PlayedOf(activePlay))))
                 = BagOf(IdsOf(builderState.hand))
           /\ after.state.deck = builderState.deck

\* C10: whenever Active Play exists, baseId is in Hand as an Unspent entry,
\* and every id in mods is in Hand as an Unspent entry of a modifier card.
C10_ActivePlayInHand ==
    activePlay # NoPlay =>
        /\ \E i \in 1..Len(builderState.hand) :
              builderState.hand[i] = Unspent(activePlay.baseId)
        /\ \A k \in 1..Len(activePlay.mods) :
              /\ \E i \in 1..Len(builderState.hand) :
                    builderState.hand[i] = Unspent(activePlay.mods[k])
              /\ CardType(activePlay.mods[k]) = "modifier"

\* C11: in every Selecting state the summed cost of the attached modifiers
\* is at most the current Modifier Capacity, however toggleAttach is
\* interleaved with adjustModifierCapacity and adjustModCount.
C11_AttachedCostWithinCapacity ==
    activePlay # NoPlay =>
        AttachedCost(activePlay.mods) <= builderState.modifierCapacity

\* indexes that name no entry of Discard: one before the first, one and two
\* past the last
BadIndexes(state) == {0, Len(state.discard) + 1, Len(state.discard) + 2}

\* the rejections C12 lists, without the invalid index
RejectedUnchanged(state) ==
    /\ (~state.isLocked \/ Len(state.hand) >= state.handLimit) => draw(state) = {state}
    /\ Len(state.hand) >= state.handLimit =>
          \A t \in ReturnsToHand(state) : t = state
    /\ state.isLocked =>
          \A cardId \in ModIds, delta \in Deltas : adjustModCount(state, cardId, delta) = state
    /\ \A cardId \in ModIds :
          ~canAddModCardSnapshot(state, cardId) => adjustModCount(state, cardId, 1) = state
    /\ finalizePlay(state, NoPlay) = [state |-> state, active |-> NoPlay]
    /\ \A cardId \in AllIds : attachModifier(state, NoPlay, cardId) = NoPlay
    /\ \A cardId \in AllIds \ IdsIn(state.discard), all \in BOOLEAN :
          /\ returnDiscardGroupToDeck(state, cardId, all) = state
          /\ returnDiscardGroupToHand(state, cardId, all) = state

\* C12: an operation invoked with a violated precondition (hand full, deck
\* unlocked for Draw, locked for modifier edits, capacity exceeded, no active
\* play, an index or id that is not in Discard) raises nothing and returns
\* the prior state.
C12_RejectedIsUnchanged ==
    /\ RejectedUnchanged(builderState)
    /\ \A idx \in BadIndexes(builderState) :
          /\ returnDiscardItemToDeck(builderState, idx) = builderState
          /\ returnDiscardItemToHand(builderState, idx) = builderState

----------------------------------------------------------------------------
(* Saved decks, checked under SpecSaved.                                   *)

\* an entry of savedDecks: the unshuffled build of a selection under a name
SavedDeck(name, sel) ==
    [name |-> name, deck |-> buildDeckArray(sel), baseCounts |-> sel.baseCounts,
     modCounts |-> sel.modCounts, nullCount |-> sel.nullCount,
     modifierCapacity |-> sel.modifierCapacity, createdAt |-> "t0"]

\* what storage holds under savedDecks: "X", saved from a selection of b2
\* and five nulls at capacity 11, and "Y", a stale entry with four nulls
StoredDecks ==
    LET selX == [defaultState EXCEPT !.baseCounts = SetCount(@, "b2", 1),
                                     !.modifierCapacity = @ + 1]
        selY == [defaultState EXCEPT !.nullCount = MIN_NULLS - 1]
    IN [name \in {"X", "Y"} |->
           IF name = "X" THEN SavedDeck("X", selX) ELSE SavedDeck("Y", selY)]

SavedNames == {"X", "Y", "Z"}

LoadSavedDeck ==
    \E name \in SavedNames : Apply({loadSavedDeck(builderState, name)})

DeleteSavedDeck ==
    \E name \in DOMAIN builderState.savedDecks : Apply({deleteSavedDeck(builderState, name)})

InitSaved ==
    /\ builderState \in {loadState([table EXCEPT !.savedDecks = StoredDecks]) : table \in Tables}
    /\ activePlay = NoPlay
    /\ lastBuild = NoBuild

NextSaved ==
    \/ LoadSavedDeck
    \/ DeleteSavedDeck
    \/ Draw
    \/ ToggleLockDeck
    \/ DiscardGroupFromHand
    \/ SetHandLimit

SpecSaved == InitSaved /\ [][NextSaved]_vars

\* C13: loading the saved deck X takes Deck, base and modifier counts,
\* nullCount and capacity from the saved snapshot, empties Hand and Discard
\* and unlocks, whatever the prior state; savedDecks and handLimit stay.
C13_LoadOverwrites ==
    \A name \in DOMAIN builderState.savedDecks :
        LET sd == builderState.savedDecks[name]
            t == loadSavedDeck(builderState, name)
        IN /\ t.deck = sd.deck
           /\ t.baseCounts = sd.baseCounts
           /\ t.modCounts = sd.modCounts
           /\ t.nullCount = sd.nullCount
           /\ t.modifierCapacity = sd.modifierCapacity
           /\ t.hand = <<>> /\ t.discard = <<>>
           /\ t.isLocked = FALSE
           /\ t.savedDecks = builderState.savedDecks
           /\ t.handLimit = builderState.handLimit

\* X is still stored while the table is locked, differs from X in deck,
\* counts and capacity, has cards in Hand and Discard and a changed handLimit
C13_Witness ==
    /\ "X" \in DOMAIN builderState.savedDecks
    /\ builderState.isLocked
    /\ Len(builderState.hand) > 0 /\ Len(builderState.discard) > 0
    /\ builderState.handLimit = MaxHandInput
    /\ builderState.deck # builderState.savedDecks["X"].deck
    /\ builderState.baseCounts # builderState.savedDecks["X"].baseCounts
    /\ builderState.modCounts # builderState.savedDecks["X"].modCounts
    /\ builderState.modifierCapacity # builderState.savedDecks["X"].modifierCapacity

----------------------------------------------------------------------------
(* More selection properties, checked under SpecBuilder.                   *)

\* deltas a caller can pass beside the buttons' -1 and +1
WideDeltas == {-2, -1, 1, 2}

\* C14: adjustBaseCount clamps the card's count at 0 and changes nothing
\* when the base total would pass 26, so from the defaults every base count
\* is >= 0 and baseTotal <= 26; it is applied locked or not.
C14_BaseCountsBounded ==
    /\ \A cardId \in BaseIds : builderState.baseCounts[cardId] >= 0
    /\ SumOver(SelectionBag(builderState), BaseIds) <= 26
    /\ \A cardId \in BaseIds, delta \in WideDeltas :
          LET count == builderState.baseCounts[cardId]
              wanted == IF count + delta < 0 THEN 0 ELSE count + delta
              others == SumOver(SelectionBag(builderState), BaseIds \ {cardId})
              t == adjustBaseCount(builderState, cardId, delta)
          IN IF others + wanted > 26 THEN t = builderState
             ELSE /\ t.baseCounts[cardId] = wanted
                  /\ [t EXCEPT !.baseCounts = builderState.baseCounts] = builderState
                  /\ \A other \in BaseIds \ {cardId} :
                        t.baseCounts[other] = builderState.baseCounts[other]

\* a locked selection of 26 bases with none of b2: one more is turned down,
\* one fewer of b2 stays at 0, one fewer of b1 is applied
C14_Witness ==
    /\ builderState.isLocked
    /\ builderState.baseCounts["b1"] = BASE_TARGET
    /\ builderState.baseCounts["b2"] = 0
    /\ adjustBaseCount(builderState, "b2", 1) = builderState
    /\ adjustBaseCount(builderState, "b2", -1).baseCounts["b2"] = 0
    /\ adjustBaseCount(builderState, "b1", -1).baseCounts["b1"] = BASE_TARGET - 1

\* C15: adjustModCount changes nothing while isLocked; unlocked, an increase
\* changes nothing when capacityUsed plus the card's cost is over capacity,
\* and a decrease is always applied, the count stopping at 0.
C15_ModCountAdmission ==
    \A cardId \in ModIds, delta \in WideDeltas :
        LET count == builderState.modCounts[cardId]
            used == SumOver([id \in ModIds |-> builderState.modCounts[id] * Cost(id)], ModIds)
            t == adjustModCount(builderState, cardId, delta)
        IN IF builderState.isLocked THEN t = builderState
           ELSE IF delta > 0 /\ used + Cost(cardId) > builderState.modifierCapacity
                THEN t = builderState
           ELSE /\ t.modCounts[cardId] = (IF count + delta < 0 THEN 0 ELSE count + delta)
                /\ \A other \in ModIds \ {cardId} : t.modCounts[other] = builderState.modCounts[other]
                /\ [t EXCEPT !.modCounts = builderState.modCounts] = builderState

\* an unlocked selection over its capacity: m2 can still be taken out, no
\* modifier can be added, and m1 stays at 0
C15_Witness ==
    /\ ~builderState.isLocked
    /\ modCapacityUsed(builderState) > builderState.modifierCapacity
    /\ builderState.modCounts["m1"] = 0
    /\ adjustModCount(builderState, "m2", -1).modCounts["m2"] = builderState.modCounts["m2"] - 1
    /\ adjustModCount(builderState, "m1", -1) = builderState
    /\ \A cardId \in ModIds : adjustModCount(builderState, cardId, 1) = builderState

----------------------------------------------------------------------------
(* More saved-deck properties, checked under SpecSaved.                    *)

\* C16: nullCount >= 5 in every reachable state: adjustNullCount stops at
\* the floor of 5, the defaults have 5, and nothing restored from storage
\* brings nullCount under 5.
C16_NullFloor ==
    /\ builderState.nullCount >= 5
    /\ defaultState.nullCount = 5
    /\ \A delta \in WideDeltas : adjustNullCount(builderState, delta).nullCount >= 5

----------------------------------------------------------------------------
(* More play properties, checked under SpecPlay.                           *)

\* seq without the entries at the positions in taken
DropAt(seq, taken) ==
    LET kept[i \in 0..Len(seq)] ==
            IF i = 0 THEN <<>>
            ELSE IF i \in taken THEN kept[i - 1] ELSE Append(kept[i - 1], seq[i])
    IN kept[Len(seq)]

\* the last n of the positions in at
LastOf(at, n) == {i \in at : Cardinality({j \in at : j > i}) < n}

\* C17: return discard -> hand moves entries of the requested id from
\* Discard to the Hand tail as Unspent, at most handLimit - |Hand| of them;
\* a move-all that does not fit moves as many as fit, the most recently
\* discarded first, and the rest stay in Discard in their order; with
\* all = false the most recent one is moved.
C17_ReturnToHandMostRecentFirst ==
    \A cardId \in AllIds, all \in BOOLEAN :
        LET discard == builderState.discard
            at == {i \in 1..Len(discard) : discard[i].id = cardId}
            room == builderState.handLimit - Len(builderState.hand)
            want == IF all THEN Cardinality(at) ELSE 1
            n == IF room <= 0 THEN 0
                 ELSE IF want <= room /\ want <= Cardinality(at) THEN want
                 ELSE IF room <= Cardinality(at) THEN room ELSE Cardinality(at)
            t == returnDiscardGroupToHand(builderState, cardId, all)
        IN /\ t.hand = builderState.hand \o [k \in 1..n |-> [id |-> cardId, state |-> "unspent"]]
           /\ t.discard = DropAt(discard, LastOf(at, n))
           /\ [t EXCEPT !.hand = builderState.hand, !.discard = discard] = builderState

\* more entries of one id in Discard than the Hand has room for, the oldest
\* of them Played and the most recent Discarded
C17_Witness ==
    \E cardId \in IdsIn(builderState.discard) :
        LET discard == builderState.discard
            at == {i \in 1..Len(discard) : discard[i].id = cardId}
            room == builderState.handLimit - Len(builderState.hand)
            first == CHOOSE i \in at : \A j \in at : i <= j
            last == CHOOSE i \in at : \A j \in at : i >= j
        IN /\ room >= 1
           /\ Cardinality(at) > room
           /\ discard[first].origin = "played"
           /\ discard[last].origin = "discarded"
           /\ \E i \in 1..Len(discard) : discard[i].id # cardId /\ first < i /\ i < last

----------------------------------------------------------------------------
(* Rebuilding the deck.                                                    *)

\* C18 (checked under Spec): Reset leaves a Deck whose ids are the
\* expansion of the current counts, empties Hand and Discard, and leaves
\* counts, capacity, isLocked and handLimit as they were.
C18_ResetRebuilds ==
    \A t \in resetDeck(builderState) :
        /\ \A id \in AllIds :
              CountOf(t.deck, id) =
                  CountAt(builderState.baseCounts, id) + CountAt(builderState.modCounts, id)
                  + (IF id = NullId THEN builderState.nullCount ELSE 0)
        /\ t.hand = <<>>
        /\ t.discard = <<>>
        /\ [t EXCEPT !.deck = builderState.deck, !.hand = builderState.hand,
                     !.discard = builderState.discard] = builderState

\* a locked table with cards in Hand and Discard, a changed handLimit, and
\* counts that were changed since its cards were built
C18_Witness ==
    /\ builderState.isLocked
    /\ Len(builderState.hand) > 0
    /\ Len(builderState.discard) > 0
    /\ builderState.handLimit = MaxHandInput
    /\ CardsOf(builderState) # SelectionBag(builderState)
    /\ SumOver(SelectionBag(builderState), AllIds) <= MaxCards

Copies(id, n) == [k \in 1..n |-> id]

\* C19 (checked under SpecSaved): Build replaces Deck with the expansion of
\* the current counts, unshuffled the base ids, then the modifier ids, then
\* the null ids, each repeated per its count, and does not touch Hand or
\* Discard.
C19_BuildReplacesDeck ==
    LET unshuffled ==
            Copies("b1", builderState.baseCounts["b1"]) \o Copies("b2", builderState.baseCounts["b2"])
            \o Copies("m1", builderState.modCounts["m1"]) \o Copies("m2", builderState.modCounts["m2"])
            \o Copies("null", builderState.nullCount)
    IN /\ generateDeck(builderState, FALSE) = {[builderState EXCEPT !.deck = unshuffled]}
       /\ \A t \in generateDeck(builderState, TRUE) :
             /\ BagOf(t.deck) = BagOf(unshuffled)
             /\ t.hand = builderState.hand
             /\ t.discard = builderState.discard
             /\ [t EXCEPT !.deck = builderState.deck] = builderState

\* a table of a base, a modifier and nulls with cards in Hand and Discard
\* and a Deck that is not the unshuffled build
C19_Witness ==
    /\ baseTotal(builderState) > 0
    /\ sumCounts(builderState.modCounts) > 0
    /\ Len(builderState.hand) > 0
    /\ Len(builderState.discard) > 0
    /\ builderState.deck # buildDeckArray(builderState)
    /\ \E t \in generateDeck(builderState, TRUE) : t.deck # buildDeckArray(builderState)

----------------------------------------------------------------------------
(* The stored snapshot.                                                    *)

SnapshotKeys ==
    <<"baseCounts", "modCounts", "nullCount", "modifierCapacity", "deck", "hand",
      "discard", "isLocked", "deckName", "savedDecks", "handLimit">>

\* JSON.stringify(builderState): the members of the object in key order
\* (every value the engine stores is a number, a string, a boolean, an
\* array or an object of these, which JSON carries as it is)
JsonStringify(state) ==
    [i \in 1..Len(SnapshotKeys) |-> [key |-> SnapshotKeys[i], value |-> state[SnapshotKeys[i]]]]

\* JSON.parse(raw): an object of the members read, the last of a key winning
JsonParse(raw) ==
    [key \in {raw[i].key : i \in 1..Len(raw)} |->
        raw[CHOOSE i \in 1..Len(raw) :
                raw[i].key = key /\ \A j \in 1..Len(raw) : raw[j].key = key => j <= i].value]

\* C20 (checked under SpecSaved): restoring the snapshot persisted from a
\* reachable Builder State gives that state back in every field.
C20_SnapshotRoundTrip ==
    loadState(JsonParse(JsonStringify(builderState))) = builderState

----------------------------------------------------------------------------
(* Restoring from storage, checked under SpecRestore.                      *)

\* counts as an older catalog left them: "old" and "gone" are no cards now
StaleBaseCounts == [id \in {"b1", "old"} |-> IF id = "b1" THEN 1 ELSE 2]
StaleModCounts == [id \in {"gone"} |-> 1]

\* a stored snapshot with some of its fields: per field, 0 leaves it out
StoredSnapshot(base, mod, nulls, limit, lock) ==
    LET keys == (IF base > 0 THEN {"baseCounts"} ELSE {})
                \cup (IF mod > 0 THEN {"modCounts"} ELSE {})
                \cup (IF nulls > 0 THEN {"nullCount"} ELSE {})
                \cup (IF limit > 0 THEN {"handLimit"} ELSE {})
                \cup (IF lock > 0 THEN {"isLocked", "deck"} ELSE {})
    IN [key \in keys |->
           CASE key = "baseCounts" -> (IF base = 1 THEN [id \in {"b1"} |-> 1] ELSE StaleBaseCounts)
             [] key = "modCounts" -> (IF mod = 1 THEN [id \in {"m1"} |-> 1] ELSE StaleModCounts)
             [] key = "nullCount" -> (IF nulls = 1 THEN MIN_NULLS - 2 ELSE MIN_NULLS + 1)
             [] key = "handLimit" -> (IF limit = 1 THEN 0 ELSE MaxHandInput)
             [] key = "isLocked" -> TRUE
             [] key = "deck" -> <<NullId, "b1">>]

Stored ==
    {NoRaw} \cup {StoredSnapshot(base, mod, nulls, limit, lock) :
                    base \in 0..2, mod \in 0..2, nulls \in 0..2, limit \in 0..2, lock \in 0..1}

\* the component mounts on what storage holds
Mount ==
    /\ \E parsed \in Stored : builderState' = loadState(parsed)
    /\ UNCHANGED <<activePlay, lastBuild>>

InitRestore ==
    /\ builderState \in {loadState(parsed) : parsed \in Stored}
    /\ activePlay = NoPlay
    /\ lastBuild = NoBuild

NextRestore ==
    \/ Mount
    \/ ResetBuilder
    \/ ToggleLockDeck

SpecRestore == InitRestore /\ [][NextRestore]_vars

\* C21: restoration defaults each missing field by itself and keeps in the
\* restored counts only ids of the catalog: every key of baseCounts is a
\* base id and every key of modCounts a modifier id.
C21_RestoredCountsInCatalog ==
    /\ DOMAIN builderState = DOMAIN defaultState
    /\ DOMAIN builderState.baseCounts \subseteq BaseIds
    /\ DOMAIN builderState.modCounts \subseteq ModIds

\* the default the specification lists, field by field
IsDefault(state) ==
    /\ \A id \in DOMAIN state.baseCounts : state.baseCounts[id] = 0
    /\ \A id \in DOMAIN state.modCounts : state.modCounts[id] = 0
    /\ DOMAIN state.baseCounts = BaseIds
    /\ DOMAIN state.modCounts = ModIds
    /\ state.nullCount = 5
    /\ state.modifierCapacity = 10
    /\ state.deck = <<>>
    /\ state.hand = <<>>
    /\ state.discard = <<>>
    /\ state.isLocked = FALSE
    /\ state.handLimit = 5
    /\ state.savedDecks = <<>>

\* C22: with no persisted snapshot, and after resetBuilder from any state,
\* the state is the default: all counts zero, nullCount 5, capacity 10,
\* empty Deck, Hand and Discard, unlocked, handLimit 5, no saved decks.
C22_DefaultWhenAbsentOrReset ==
    /\ IsDefault(loadState(NoRaw))
    /\ IsDefault(resetBuilder(builderState))

\* a restored, locked table with stale counts and its own hand limit, which
\* resetBuilder has to clear
C22_Witness ==
    /\ builderState.isLocked
    /\ builderState.deck # <<>>
    /\ builderState.nullCount > 5
    /\ builderState.handLimit # 5
    /\ "old" \in DOMAIN builderState.baseCounts
    /\ IsDefault(resetBuilder(builderState))

\* C23: Finalize moves only what is still in Hand: an id of the Active Play
\* with no Hand entry left adds nothing to Discard, and the multiset of ids
\* of Deck, Hand and Discard is the same after Finalize, whatever was done
\* to Hand since Start.
C23_FinalizeKeepsUnion ==
    activePlay # NoPlay =>
        LET after == finalizePlay(builderState, activePlay).state
        IN /\ CardsOf(after) = CardsOf(builderState)
           /\ after.deck = builderState.deck
           /\ \A id \in AllIds :
                 CountOf(IdsOf(builderState.hand), id) = 0 =>
                     CountOf(IdsOf(after.discard), id) = CountOf(IdsOf(builderState.discard), id)

\* the base was discarded from Hand after Start, an attached modifier is
\* still there, and Finalize moves the modifier only
C23_Witness ==
    /\ activePlay # NoPlay
    /\ activePlay.baseId \notin IdsIn(builderState.hand)
    /\ \E k \in 1..Len(activePlay.mods) : activePlay.mods[k] \in IdsIn(builderState.hand)
    /\ Len(finalizePlay(builderState, activePlay).state.discard) = Len(builderState.discard) + 1
    /\ CardsOf(finalizePlay(builderState, activePlay).state) = CardsOf(builderState)

\* an eligible base: a Base-category card with an Unspent entry in Hand
EligibleBase(state, cardId) ==
    /\ CardType(cardId) = "base"
    /\ \E i \in 1..Len(state.hand) : state.hand[i] = Unspent(cardId)

\* C24: Start leaves Active Play as it is when the machine is already
\* Selecting or the chosen card is not an eligible base; from Idle with an
\* eligible base it creates Active Play {baseId, mods: {}}; the Hand is not
\* touched.
C24_StartOnlyEligibleBase ==
    \A cardId \in AllIds :
        LET after == startPlayBase(activePlay, cardId)
        IN /\ (activePlay # NoPlay \/ ~EligibleBase(builderState, cardId)) => after = activePlay
           /\ (activePlay = NoPlay /\ EligibleBase(builderState, cardId)) =>
                 after = [baseId |-> cardId, mods |-> <<>>]

\* C25: Cancel returns the machine to Idle and touches neither Hand, Deck
\* nor Discard, so the card selected as base and every attached modifier
\* has an Unspent entry in Hand after Cancel.
C25_CancelLeavesSelectionInHand ==
    activePlay # NoPlay =>
        /\ cancelPlay(activePlay) = NoPlay
        /\ \A id \in {activePlay.baseId} \cup {activePlay.mods[k] : k \in 1..Len(activePlay.mods)} :
              \E i \in 1..Len(builderState.hand) : builderState.hand[i] = Unspent(id)

\* how many entries of Discard carry the origin Played
PlayedCount(discard) == Cardinality({i \in 1..Len(discard) : discard[i].origin = "played"})

\* what discard-from-hand of cardId does to the current state
MovesMatching ==
    \A cardId \in AllIds, all \in BOOLEAN, origin \in {"played", "discarded"} :
        LET after == discardGroupFromHand(builderState, cardId, all, origin)
            found == {i \in 1..Len(builderState.hand) : builderState.hand[i].id = cardId}
            taken == IF all \/ found = {} THEN found
                     ELSE {CHOOSE i \in found : \A k \in found : i <= k}
        IN /\ after.hand = DropAt(builderState.hand, taken)
           /\ after.discard = builderState.discard
                 \o [i \in 1..Cardinality(taken) |-> [id |-> cardId, origin |-> origin]]
           /\ after = [builderState EXCEPT !.hand = after.hand, !.discard = after.discard]

\* a step that adds a Played entry to Discard is a Finalize of the Active Play
PlayedOnlyByFinalize ==
    PlayedCount(builderState'.discard) > PlayedCount(builderState.discard) =>
        /\ activePlay # NoPlay
        /\ builderState' = finalizePlay(builderState, activePlay).state
        /\ activePlay' = NoPlay

\* C26: discard-from-hand moves the first Hand entry with the id (single)
\* or every entry with the id (whole group) to the Discard tail, leaves the
\* Deck and the other Hand entries as they are and in order, and tags the
\* moved entries with the origin it is given; the origin Played is given by
\* Finalize only, so only a Finalize step adds a Played entry to Discard.
C26_DiscardFromHandMovesAndTags ==
    /\ []MovesMatching
    /\ [][PlayedOnlyByFinalize]_vars

\* a Hand with a stack of one id around another card, and a Discard that
\* holds a Played and a Discarded entry
C26_Witness ==
    /\ \E i, j, k \in 1..Len(builderState.hand) :
          /\ i < j /\ j < k
          /\ builderState.hand[i].id = builderState.hand[k].id
          /\ builderState.hand[j].id # builderState.hand[i].id
    /\ \E i, j \in 1..Len(builderState.discard) :
          /\ builderState.discard[i].origin = "played"
          /\ builderState.discard[j].origin = "discarded"

\* a Draw accepted on state puts cardId at the Hand tail
DrawGives(state, cardId) ==
    \A drawn \in draw(state) : drawn # state => Last(drawn.hand) = Unspent(cardId)

\* C27: return discard -> deck appends the returned ids to the Deck tail
\* (the top) and removes exactly those entries from Discard: the entry at
\* the index, the first entry with the id, or every entry with the id; a
\* Draw accepted right after a single return puts that id into Hand.
C27_ReturnToDeckTop ==
    /\ \A idx \in 1..Len(builderState.discard) :
          LET after == returnDiscardItemToDeck(builderState, idx)
          IN /\ after = [builderState EXCEPT !.deck = Append(@, builderState.discard[idx].id),
                                             !.discard = DropAt(@, {idx})]
             /\ DrawGives(after, builderState.discard[idx].id)
    /\ \A cardId \in IdsIn(builderState.discard) :
          LET found == {i \in 1..Len(builderState.discard) : builderState.discard[i].id = cardId}
              first == CHOOSE i \in found : \A k \in found : i <= k
              one == returnDiscardGroupToDeck(builderState, cardId, FALSE)
              every == returnDiscardGroupToDeck(builderState, cardId, TRUE)
          IN /\ one = [builderState EXCEPT !.deck = Append(@, cardId), !.discard = DropAt(@, {first})]
             /\ DrawGives(one, cardId)
             /\ every = [builderState EXCEPT !.deck = @ \o Repeat(cardId, Cardinality(found)),
                                             !.discard = DropAt(@, found)]

\* a locked table with room in Hand, a Null on top of the Deck, and a
\* Discard that holds two Nulls and another card: the Draw after the single
\* return of that card takes it, not the old top
C27_Witness ==
    /\ builderState.isLocked
    /\ Len(builderState.hand) < builderState.handLimit
    /\ CountOf(IdsOf(builderState.discard), NullId) >= 2
    /\ builderState.deck # <<>>
    /\ \E cardId \in IdsIn(builderState.discard) :
          /\ Last(builderState.deck) # cardId
          /\ \E drawn \in draw(returnDiscardGroupToDeck(builderState, cardId, FALSE)) :
                Last(drawn.hand) = Unspent(cardId)

\* C28: while isLocked is true adjustNullCount(delta) leaves nullCount as it
\* is, whereas adjustBaseCount does to a locked state what it does to the
\* same state unlocked.
C28_NullEditsGatedByLock ==
    builderState.isLocked =>
        /\ \A delta \in Deltas :
              adjustNullCount(builderState, delta).nullCount = builderState.nullCount
        /\ \A cardId \in BaseIds, delta \in Deltas :
              adjustBaseCount(builderState, cardId, delta).baseCounts
                 = adjustBaseCount([builderState EXCEPT !.isLocked = FALSE], cardId, delta).baseCounts

\* no Draw and no return-to-hand changes the state
NothingAddsToHand(state) ==
    /\ draw(state) = {state}
    /\ ReturnsToHand(state) \subseteq {state}

\* C29: changing handLimit sets the limit to the typed number clamped to
\* >= 0 and leaves Hand, Deck, Discard and every other field as they are,
\* also when the new limit is below |Hand|; and while |Hand| > handLimit no
\* Draw and no return-to-hand adds a card.
C29_HandLimitNotRetroactive ==
    /\ \A isNaN \in BOOLEAN, next \in HandInputs :
          LET after == setHandLimit(builderState, isNaN, next)
          IN /\ after = [builderState EXCEPT !.handLimit = IF isNaN THEN @ ELSE Max(next, 0)]
             /\ after.handLimit >= 0
             /\ Len(after.hand) > after.handLimit => NothingAddsToHand(after)
    /\ Len(builderState.hand) > builderState.handLimit => NothingAddsToHand(builderState)

\* a locked table with cards in Deck and Discard whose Hand is within the
\* limit until the limit typed puts it below |Hand|
C29_Witness ==
    /\ builderState.isLocked
    /\ builderState.deck # <<>>
    /\ builderState.discard # <<>>
    /\ Len(builderState.hand) >= 2
    /\ Len(builderState.hand) < builderState.handLimit
    /\ draw(builderState) # {builderState}
    /\ \E next \in HandInputs :
          LET after == setHandLimit(builderState, FALSE, next)
          IN /\ Len(after.hand) > after.handLimit
             /\ after.hand = builderState.hand
             /\ draw(after) = {after}

\* the Draws that get past the lock and the hand limit
DrawTaken(state) == state.isLocked /\ Len(state.hand) < state.handLimit

AllUnspent(hand) == \A i \in 1..Len(hand) : hand[i].state = "unspent"

\* C31: every Hand entry has the status Unspent in every reachable state,
\* and what Draw and the two return-to-hand operations make of the state
\* has only Unspent entries in Hand too.
C31_HandEntriesUnspent ==
    /\ AllUnspent(builderState.hand)
    /\ \A after \in draw(builderState) \cup ReturnsToHand(builderState) : AllUnspent(after.hand)

\* a Hand that already has entries, on a table where a Draw and a
\* return-to-hand each add one more
C31_Witness ==
    /\ Len(builderState.hand) >= 2
    /\ \E drawn \in draw(builderState) : Len(drawn.hand) > Len(builderState.hand)
    /\ \E back \in ReturnsToHand(builderState) : Len(back.hand) > Len(builderState.hand)
    /\ AllUnspent(builderState.hand)

----------------------------------------------------------------------------
(* SpecAdmit: modifier counts and capacity increases from the defaults.    *)

RaiseModifierCapacity ==
    /\ builderState.modifierCapacity < defaultState.modifierCapacity + MaxRaise
    /\ Apply({adjustModifierCapacity(builderState, 1)})

InitAdmit ==
    /\ builderState = loadState(NoRaw)
    /\ activePlay = NoPlay
    /\ lastBuild = NoBuild

NextAdmit ==
    \/ AdjustModCount
    \/ RaiseModifierCapacity

SpecAdmit == InitAdmit /\ [][NextAdmit]_vars

\* C32: from the defaults, with adjustModCount(+1 / -1) and capacity
\* increases only, capacityUsed(modCounts) <= modifierCapacity in every
\* state; an increase is admitted exactly when capacityUsed plus the cost
\* of one copy fits, whatever the delta; and adjustModifierCapacity applies
\* a decrease whatever capacityUsed is.
C32_UsedWithinCapacity ==
    /\ modCapacityUsed(builderState) <= builderState.modifierCapacity
    /\ \A cardId \in ModIds, delta \in {1, 2} :
          (adjustModCount(builderState, cardId, delta) # builderState)
             <=> (modCapacityUsed(builderState) + Cost(cardId) <= builderState.modifierCapacity)
    /\ \A delta \in {-2, -1} :
          adjustModifierCapacity(builderState, delta)
             = [builderState EXCEPT !.modifierCapacity = Max(@ + delta, 0)]

\* the capacity was raised and both modifiers fill it exactly: no increase
\* is admitted, and a decrease of the capacity is applied all the same
C32_Witness ==
    /\ builderState.modifierCapacity > defaultState.modifierCapacity
    /\ modCapacityUsed(builderState) = builderState.modifierCapacity
    /\ \A cardId \in ModIds : builderState.modCounts[cardId] > 0
    /\ \A cardId \in ModIds : adjustModCount(builderState, cardId, 1) = builderState
    /\ ~modValid(adjustModifierCapacity(builderState, -1))

====
